---- MODULE Spec2Model ----
(***************************************************************************)
(* Model of the-derple-dex data preparation scripts                        *)
(* (scripts/prepare-data-v3.py, with the loop of prepare-data-v2.py):      *)
(* the per-category normalizers as operators over small tables, and the    *)
(* orchestrator main() as a state machine.                                 *)
(*                                                                         *)
(* Encodings.  A DataFrame is [columns |-> sequence of column names,       *)
(* rows |-> sequence of functions from the column names to values].        *)
(* A timestamp is a number of ticks (TicksPerDay ticks per calendar day).  *)
(* A float rounded with round(x, 4) is the integer x * 10^4.  A Python     *)
(* dict is a sequence of [key, ...] records in insertion order.  A         *)
(* function that may raise returns [tag |-> "ok", doc |-> d] or            *)
(* [tag |-> "raise", exc |-> message].                                     *)
(***************************************************************************)
EXTENDS Integers, Sequences, FiniteSets, TLC

VARIABLES
    df,        \* normalizer call: the caller's raw table
    kind,      \* normalizer call: which normalizer is called
    ret,       \* normalizer call: what the call returned or raised
    called,    \* normalizer call: whether the call has happened
    assigned,  \* normalizer call: the columns of the caller's table object
               \* the call has assigned in place
    variant,                  \* main(): "v3" (bridge) or "v2" (Parquet files)
    DATASETS,                 \* main(): the declared datasets, in dict order
    INCLUDE_RESTRICTED_DATA,  \* main(): the environment toggle
    world,                    \* what the bridge, the disk and the clock will answer
    pc,                       \* main(): "idle", "loop", "report" or "done"
    idx,                      \* main(): position of the loop in DATASETS
    all_datasets,             \* main(): the summaries collected so far
    errors,                   \* main(): the (name, message) pairs recorded
    files,                    \* public/data/<name>.json, by name
    datasets_json,            \* src/data/datasets.json
    exit_status,              \* "running", "success" (0) or "failure" (non-zero)
    log                       \* what main() has printed, one event per line

nvars == <<df, kind, ret, called, assigned>>
ovars == <<variant, DATASETS, INCLUDE_RESTRICTED_DATA, world, pc, idx, all_datasets,
           errors, files, datasets_json, exit_status, log>>
vars == <<nvars, ovars>>

(***************************************************************************)
(* Bounds of the model                                                     *)
(***************************************************************************)
MaxRows == 2
MaxVolume == 2
TicksPerDay == 2

(***************************************************************************)
(* Values                                                                  *)
(***************************************************************************)
\* Python None in a string column
None == "None"
\* float NaN (a null in a numeric column, or an undefined aggregate)
NaN == -1
\* a date string pandas.to_datetime cannot parse
BadDate == -1
\* pandas NaT (min/max of an empty datetime column)
NaT == -2
\* Python None where a date is expected (date_range of an empty table)
NoDate == -3
\* round(x, 4): floats are kept as multiples of 10^-4
E4 == 10000

\* every string a key column may hold, in Python's str order
StrOrder == <<"AAA", "Baseline", "Fed", "Reuters", "S1", "S2", "Severe", "ZZZ">>

Range(s) == {s[i] : i \in DOMAIN s}

Rank(s) == CHOOSE i \in DOMAIN StrOrder : StrOrder[i] = s

RECURSIVE SeqSum(_)
SeqSum(s) == IF s = <<>> THEN 0 ELSE s[1] + SeqSum(Tail(s))

SetMin(S) == CHOOSE x \in S : \A y \in S : x <= y
SetMax(S) == CHOOSE x \in S : \A y \in S : x >= y

\* Series.unique(): the distinct values in order of first appearance
RECURSIVE Unique(_)
Unique(s) ==
    IF s = <<>> THEN <<>>
    ELSE LET u == Unique(SubSeq(s, 1, Len(s) - 1))
         IN IF s[Len(s)] \in Range(u) THEN u ELSE Append(u, s[Len(s)])

\* the strings of S in ascending order
RECURSIVE SortedStrings(_)
SortedStrings(S) ==
    IF S = {} THEN <<>>
    ELSE LET m == CHOOSE x \in S : \A y \in S : Rank(x) <= Rank(y)
         IN <<m>> \o SortedStrings(S \ {m})

\* sorted(list) of the unique values of a string column: Python cannot
\* order None against a str, so a list mixing them raises TypeError; a list
\* of one element is returned without any comparison.
SortedRaises(u) == None \in Range(u) /\ Len(u) > 1
sorted(u) == IF None \in Range(u) THEN u ELSE SortedStrings(Range(u))

\* round(num / den, 0) for num >= 0, den > 0, ties to even as Python does
RoundHalfEven(num, den) ==
    LET q == num \div den
        r == num % den
    IN IF 2 * r < den THEN q
       ELSE IF 2 * r > den THEN q + 1
       ELSE IF q % 2 = 0 THEN q ELSE q + 1

\* floor of the square root of q, by bisection between lo and hi
RECURSIVE ISqrtIter(_, _, _)
ISqrtIter(q, lo, hi) ==
    IF hi - lo <= 1 THEN lo
    ELSE LET mid == (lo + hi) \div 2
         IN IF mid * mid <= q THEN ISqrtIter(q, mid, hi)
            ELSE ISqrtIter(q, lo, mid)

ISqrt(q) == ISqrtIter(q, 0, 46340)

\* round(sqrt(num / den) * 10^4): the square root of a fraction, to 4 places
SqrtE4(num, den) ==
    LET q1 == (num * E4) \div den
        r1 == (num * E4) % den
        q == q1 * E4 + ((r1 * E4) \div den)
        rem == (r1 * E4) % den
        s == ISqrt(q)
    IN IF q < s * s + s \/ (q = s * s + s /\ 4 * rem < den) THEN s ELSE s + 1

(***************************************************************************)
(* DataFrame operations                                                    *)
(***************************************************************************)
\* columns whose name starts with '_' (cdata's internal columns)
InternalColumns == {"_fetched_at"}

Ok(d) == [tag |-> "ok", doc |-> d]
Raise(e) == [tag |-> "raise", exc |-> e]

HasCol(t, c) == c \in Range(t.columns)

\* df[c] as a sequence of values
Column(t, c) == [i \in 1..Len(t.rows) |-> t.rows[i][c]]

\* df[[c for c in df.columns if not c.startswith('_')]]
StripInternal(t) ==
    LET keep == SelectSeq(t.columns, LAMBDA c : c \notin InternalColumns)
    IN [columns |-> keep,
        rows |-> [i \in 1..Len(t.rows) |->
                    [c \in Range(keep) |-> t.rows[i][c]]]]

\* pd.to_datetime(df[c], utc=True) raises on a value it cannot parse
ToDatetimeRaises(t, c) == \E i \in 1..Len(t.rows) : t.rows[i][c] = BadDate

\* Timestamp.strftime('%Y-%m-%d'): the calendar day of a timestamp
StrfDay(ts) == ts \div TicksPerDay

\* the number of calendar days from the day of lo to the day of hi
CalendarDays(lo, hi) == (hi \div TicksPerDay) - (lo \div TicksPerDay)

\* (date_max - date_min).days: a time difference in whole days
TimedeltaDays(lo, hi) == (hi - lo) \div TicksPerDay

\* df[df[c] == v]: the rows whose column c equals v; a comparison with a
\* null is False for every row, so a null v selects nothing
MaskEq(t, c, v) ==
    [columns |-> t.columns,
     rows |-> SelectSeq(t.rows, LAMBDA r : v # None /\ r[c] = v)]

\* min() / max() of a datetime column, NaT when the column is empty
DateMin(t) == IF t.rows = <<>> THEN NaT ELSE SetMin(Range(Column(t, "date")))
DateMax(t) == IF t.rows = <<>> THEN NaT ELSE SetMax(Range(Column(t, "date")))

\* the non-null values of a numeric column (pandas aggregates skip NaN)
NonNull(t, c) == SelectSeq(Column(t, c), LAMBDA x : x # NaN)

\* round(float(series.mean()), 4)
MeanE4(xs) == IF xs = <<>> THEN NaN ELSE RoundHalfEven(SeqSum(xs) * E4, Len(xs))

\* round(float(series.min()), 4) and round(float(series.max()), 4)
MinE4(xs) == IF xs = <<>> THEN NaN ELSE SetMin(Range(xs)) * E4
MaxE4(xs) == IF xs = <<>> THEN NaN ELSE SetMax(Range(xs)) * E4

\* n * sum(x^2) - sum(x)^2, which is n times the sum of squared deviations
SquaredDev(xs) ==
    Len(xs) * SeqSum([i \in DOMAIN xs |-> xs[i] * xs[i]]) - SeqSum(xs) * SeqSum(xs)

\* the same with the population denominator n (numpy's default ddof=0)
PopulationStdE4(xs) ==
    IF Len(xs) < 1 THEN NaN ELSE SqrtE4(SquaredDev(xs), Len(xs) * Len(xs))

\* round(float(series.std()), 4): pandas' std is the sample standard
\* deviation (ddof=1), NaN when fewer than two values are present
StdE4(xs) ==
    IF Len(xs) < 2 THEN NaN ELSE SqrtE4(SquaredDev(xs), Len(xs) * (Len(xs) - 1))

\* lexicographic order of two integer tuples of the same length
RECURSIVE LexLess(_, _)
LexLess(a, b) ==
    IF a = <<>> THEN FALSE
    ELSE IF a[1] # b[1] THEN a[1] < b[1]
    ELSE LexLess(Tail(a), Tail(b))

\* index i put into the sorted index list s, behind every index whose key
\* is not greater (so equal keys keep their table order)
RECURSIVE InsertIdx(_, _, _)
InsertIdx(s, i, keys) ==
    IF s = <<>> THEN <<i>>
    ELSE IF LexLess(keys[i], keys[s[1]]) THEN <<i>> \o s
    ELSE <<s[1]>> \o InsertIdx(Tail(s), i, keys)

\* the stable ascending order of the indices of keys
RECURSIVE StableOrder(_, _)
StableOrder(keys, n) ==
    IF n = 0 THEN <<>> ELSE InsertIdx(StableOrder(keys, n - 1), n, keys)

\* the sort position of a key-column value: nulls go last (na_position)
KeyRank(v) == IF v = None THEN Len(StrOrder) + 1 ELSE Rank(v)

\* the rows left in table order
KeptInTableOrder(t, keycol) == t

\* df.sort_values([keycol, 'date']): a multi-column sort is a stable lexsort
SortByKeyDate(t, keycol) ==
    LET keys == [i \in 1..Len(t.rows) |->
                   <<KeyRank(t.rows[i][keycol]), t.rows[i]["date"]>>]
        ord == StableOrder(keys, Len(t.rows))
    IN [columns |-> t.columns,
        rows |-> [k \in 1..Len(ord) |-> t.rows[ord[k]]]]

\* the first of the wanted columns that df[[...]] does not find, or None
ProjectionMissing(t, wanted) ==
    LET miss == SelectSeq(wanted, LAMBDA c : ~HasCol(t, c))
    IN IF miss = <<>> THEN None ELSE miss[1]

\* The object a name is bound to: the table object the caller passed in, or
\* an object made inside the call.
CallerObject == "caller"

\* the result is bound to the very object it was made from
Aliased(obj) == obj

\* df.copy(), df[[...]], df.dropna(...), df.sort_values(...): the result is
\* a new object
Fresh(obj) == "private"

\* obj[c] = ...: the columns of the caller's object an item assignment on
\* obj writes
SetItem(obj, c) == IF obj = CallerObject THEN {c} ELSE {}

\* pd.to_datetime(..., errors='coerce') of one value
Coerce(v) == IF v = BadDate THEN NaT ELSE v

\* the caller's table once the columns cols were assigned their converted
\* values in place
WrittenThrough(t, cols) ==
    [columns |-> t.columns,
     rows |-> [i \in 1..Len(t.rows) |->
                 [c \in Range(t.columns) |->
                     IF c \in cols THEN Coerce(t.rows[i][c]) ELSE t.rows[i][c]]]]

(***************************************************************************)
(* prepare_ohlcv_dataset                                                   *)
(***************************************************************************)
OhlcvDataColumns == <<"symbol", "date", "open", "high", "low", "close", "volume">>

\* the meta block every v3 normalizer builds
BridgeMeta(name, config, now, record_count, columns) ==
    [name |-> name, source_id |-> name, location |-> "bridge",
     format |-> "dataframe", record_count |-> record_count,
     columns |-> columns, primary_keys |-> config.primary_keys,
     fetched_at |-> now, description |-> config.description]

Extend(rec, field, value) ==
    [k \in DOMAIN rec \cup {field} |-> IF k = field THEN value ELSE rec[k]]

\* the document returned for an empty table or one without date / symbol
OhlcvEmptyDocument(name, d, config, now) ==
    [name |-> name, type |-> "ohlcv", description |-> config.description,
     meta |-> Extend(BridgeMeta(name, config, now, 0, d.columns), "symbols", <<>>),
     stats |-> [date_range |-> [min |-> NoDate, max |-> NoDate, days |-> 0],
                by_symbol |-> <<>>],
     data |-> <<>>]

\* close_std with the guard dropped
CloseStdUnguarded(sdf) == StdE4(NonNull(sdf, "close"))

\* round(float(sdf['close'].std()), 4) if len(sdf) > 1 else 0
CloseStd(sdf) ==
    IF Len(sdf.rows) > 1 THEN StdE4(NonNull(sdf, "close")) ELSE 0

\* symbol_stats[symbol] for the rows sdf of one symbol
OhlcvSymbolStats(symbol, sdf) ==
    [key |-> symbol,
     count |-> Len(sdf.rows),
     date_min |-> DateMin(sdf),
     date_max |-> DateMax(sdf),
     close_mean |-> MeanE4(NonNull(sdf, "close")),
     close_min |-> MinE4(NonNull(sdf, "close")),
     close_max |-> MaxE4(NonNull(sdf, "close")),
     close_std |-> CloseStd(sdf),
     volume_total |-> SeqSum(Column(sdf, "volume"))]

\* sorted(df['symbol'].unique().tolist())
OhlcvSymbols(d) == sorted(Unique(Column(d, "symbol")))

\* the symbol_stats dict, filled in the order of symbols
OhlcvBySymbol(d, symbols) ==
    [k \in 1..Len(symbols) |->
        OhlcvSymbolStats(symbols[k], MaskEq(d, "symbol", symbols[k]))]

\* sample_df: all rows sorted by (symbol, date), projected, date as a day
OhlcvData(d) ==
    LET s == SortByKeyDate(d, "symbol")
    IN [i \in 1..Len(s.rows) |->
          [c \in Range(OhlcvDataColumns) |->
              IF c = "date" THEN StrfDay(s.rows[i][c]) ELSE s.rows[i][c]]]

OhlcvDocument(name, d, config, now) ==
    LET symbols == OhlcvSymbols(d)
    IN [name |-> name, type |-> "ohlcv", description |-> config.description,
        meta |-> Extend(BridgeMeta(name, config, now, Len(d.rows), d.columns),
                        "symbols", symbols),
        stats |-> [date_range |-> [min |-> DateMin(d), max |-> DateMax(d),
                                   days |-> TimedeltaDays(DateMin(d), DateMax(d))],
                   by_symbol |-> OhlcvBySymbol(d, symbols)],
        data |-> OhlcvData(d)]

\* the same with the guard testing emptiness only
prepare_ohlcv_dataset_unguarded(name, table, config, now) ==
    LET d == StripInternal(table)
    IN IF Len(d.rows) = 0 THEN Ok(OhlcvEmptyDocument(name, d, config, now))
       ELSE IF ~HasCol(d, "date") THEN Raise("KeyError: 'date'")
       ELSE IF ToDatetimeRaises(d, "date") THEN Raise("ValueError: date")
       ELSE IF ~HasCol(d, "symbol") THEN Raise("KeyError: 'symbol'")
       ELSE IF SortedRaises(Unique(Column(d, "symbol"))) THEN Raise("TypeError: '<'")
       ELSE IF ~HasCol(d, "close") THEN Raise("KeyError: 'close'")
       ELSE IF ~HasCol(d, "volume") THEN Raise("KeyError: 'volume'")
       ELSE IF ProjectionMissing(d, OhlcvDataColumns) # None
            THEN Raise("KeyError: not in index")
       ELSE Ok(OhlcvDocument(name, d, config, now))

prepare_ohlcv_dataset(name, table, config, now) ==
    LET d == StripInternal(table)
    IN IF Len(d.rows) = 0 \/ ~HasCol(d, "date") \/ ~HasCol(d, "symbol")
       THEN Ok(OhlcvEmptyDocument(name, d, config, now))
       ELSE IF ToDatetimeRaises(d, "date") THEN Raise("ValueError: date")
       ELSE IF SortedRaises(Unique(Column(d, "symbol"))) THEN Raise("TypeError: '<'")
       ELSE IF ~HasCol(d, "close") THEN Raise("KeyError: 'close'")
       ELSE IF ~HasCol(d, "volume") THEN Raise("KeyError: 'volume'")
       ELSE IF ProjectionMissing(d, OhlcvDataColumns) # None
            THEN Raise("KeyError: not in index")
       ELSE Ok(OhlcvDocument(name, d, config, now))

\* the columns of the caller's object the call assigns: df = df.copy();
\* df = df[[...]]; df['date'] = pd.to_datetime(...); and, on the sorted and
\* projected sample_df, sample_df['date'] = ...strftime(...)
OhlcvAssigned(table, r) ==
    LET d == StripInternal(table)
        obj == Fresh(Fresh(CallerObject))
    IN IF Len(d.rows) = 0 \/ ~HasCol(d, "date") \/ ~HasCol(d, "symbol") THEN {}
       ELSE IF ToDatetimeRaises(d, "date") THEN {}
       ELSE SetItem(obj, "date") \cup
            (IF r.tag = "ok" THEN SetItem(Fresh(Fresh(obj)), "date") ELSE {})

(***************************************************************************)
(* prepare_fred_dataset (FRED and BLS)                                     *)
(***************************************************************************)
FredDataColumns == <<"series_id", "date", "value", "title", "units">>

\* how an unstable sort (sort_values on one column uses quicksort) may
\* leave rows of equal key: in table order or in reverse table order
SortTies == {"kept", "reversed"}

\* df.sort_values('date'): ascending, rows of equal date in either order
SortByDate(t, tie) ==
    LET n == Len(t.rows)
        keys == [i \in 1..n |->
                   <<t.rows[i]["date"], IF tie = "kept" THEN i ELSE n - i>>]
        ord == StableOrder(keys, n)
    IN [columns |-> t.columns, rows |-> [k \in 1..n |-> t.rows[ord[k]]]]

\* round(float(x), 4) of one value
ValueE4(x) == IF x = NaN THEN NaN ELSE x * E4

\* sdf[c].iloc[0] if c in sdf.columns and len(sdf) > 0 else default
FirstOrDefault(sdf, c, default) ==
    IF HasCol(sdf, c) /\ Len(sdf.rows) > 0 THEN sdf.rows[1][c] ELSE default

\* the value of the last row in table order
ValueLastRow(sdf, tie) == ValueE4(sdf.rows[Len(sdf.rows)]["value"])

\* round(float(sdf.sort_values('date').iloc[-1]['value']), 4)
ValueLatest(sdf, tie) ==
    LET s == SortByDate(sdf, tie) IN ValueE4(s.rows[Len(s.rows)]["value"])

\* series_stats[series_id] for the rows sdf of one series
FredSeriesStats(series_id, sdf, tie) ==
    [key |-> series_id,
     title |-> FirstOrDefault(sdf, "title", series_id),
     units |-> FirstOrDefault(sdf, "units", ""),
     frequency |-> FirstOrDefault(sdf, "frequency", ""),
     count |-> Len(sdf.rows),
     date_min |-> DateMin(sdf),
     date_max |-> DateMax(sdf),
     value_mean |-> MeanE4(NonNull(sdf, "value")),
     value_min |-> MinE4(NonNull(sdf, "value")),
     value_max |-> MaxE4(NonNull(sdf, "value")),
     value_latest |-> ValueLatest(sdf, tie)]

\* sorted(df['series_id'].unique().tolist())
FredSeriesIds(d) == sorted(Unique(Column(d, "series_id")))

FredBySeries(d, series_ids, tie) ==
    [k \in 1..Len(series_ids) |->
        FredSeriesStats(series_ids[k], MaskEq(d, "series_id", series_ids[k]), tie)]

\* sample_df: all rows sorted by (series_id, date), projected, date as a day
FredData(d) ==
    LET s == SortByKeyDate(d, "series_id")
    IN [i \in 1..Len(s.rows) |->
          [c \in Range(FredDataColumns) |->
              IF c = "date" THEN StrfDay(s.rows[i][c]) ELSE s.rows[i][c]]]

FredEmptyDocument(name, d, config, data_type, now) ==
    [name |-> name, type |-> data_type, description |-> config.description,
     meta |-> Extend(BridgeMeta(name, config, now, 0, d.columns), "series", <<>>),
     stats |-> [date_range |-> [min |-> NoDate, max |-> NoDate, days |-> 0],
                by_series |-> <<>>],
     data |-> <<>>]

FredDocument(name, d, config, data_type, now, tie) ==
    LET series_ids == FredSeriesIds(d)
    IN [name |-> name, type |-> data_type, description |-> config.description,
        meta |-> Extend(BridgeMeta(name, config, now, Len(d.rows), d.columns),
                        "series", series_ids),
        stats |-> [date_range |-> [min |-> DateMin(d), max |-> DateMax(d),
                                   days |-> TimedeltaDays(DateMin(d), DateMax(d))],
                   by_series |-> FredBySeries(d, series_ids, tie)],
        data |-> FredData(d)]

\* a series_id of the sorted list that selects no row (a null one): the
\* empty sort_values('date').iloc[-1] raises IndexError
FredEmptyGroup(d) == None \in Range(Column(d, "series_id"))

prepare_fred_dataset(name, table, config, data_type, now, tie) ==
    LET d == StripInternal(table)
    IN IF Len(d.rows) = 0 \/ ~HasCol(d, "date") \/ ~HasCol(d, "series_id")
       THEN Ok(FredEmptyDocument(name, d, config, data_type, now))
       ELSE IF ToDatetimeRaises(d, "date") THEN Raise("ValueError: date")
       ELSE IF SortedRaises(Unique(Column(d, "series_id"))) THEN Raise("TypeError: '<'")
       ELSE IF ~HasCol(d, "value") THEN Raise("KeyError: 'value'")
       ELSE IF FredEmptyGroup(d) THEN Raise("IndexError: single positional indexer")
       ELSE IF ProjectionMissing(d, FredDataColumns) # None
            THEN Raise("KeyError: not in index")
       ELSE Ok(FredDocument(name, d, config, data_type, now, tie))

\* the same statements in prepare_fred_dataset
FredAssigned(table, r) ==
    LET d == StripInternal(table)
        obj == Fresh(Fresh(CallerObject))
    IN IF Len(d.rows) = 0 \/ ~HasCol(d, "date") \/ ~HasCol(d, "series_id") THEN {}
       ELSE IF ToDatetimeRaises(d, "date") THEN {}
       ELSE SetItem(obj, "date") \cup
            (IF r.tag = "ok" THEN SetItem(Fresh(Fresh(obj)), "date") ELSE {})

(***************************************************************************)
(* prepare_rss_dataset                                                     *)
(***************************************************************************)
RecentColumns == <<"title", "link", "published", "feed_name", "author">>

\* .head(30)
RecentLimit == 30

\* the rows that failed coercion are kept
KeepUnparseable(t) == t

\* pd.to_datetime(errors='coerce') then dropna(subset=['published']): the
\* rows whose published value is a timestamp
DropUnparseable(t) ==
    IF HasCol(t, "published")
    THEN [columns |-> t.columns,
          rows |-> SelectSeq(t.rows, LAMBDA r : r["published"] >= 0)]
    ELSE t

\* df.groupby(c).size().to_dict(): the row count of every non-null value of
\* column c, keys ascending (groupby drops null keys)
GroupSizes(t, c) ==
    LET keys == SortedStrings(Range(Column(t, c)) \ {None})
    IN [k \in 1..Len(keys) |->
          [key |-> keys[k],
           count |-> Cardinality({i \in 1..Len(t.rows) : t.rows[i][c] = keys[k]})]]

\* the integers of S in ascending order
RECURSIVE SortedInts(_)
SortedInts(S) ==
    IF S = {} THEN <<>> ELSE <<SetMin(S)>> \o SortedInts(S \ {SetMin(S)})

\* df.groupby(df['published'].dt.date).size(): articles per calendar day
ArticlesByDay(t) ==
    LET days == SortedInts({StrfDay(t.rows[i]["published"]) : i \in 1..Len(t.rows)})
    IN [k \in 1..Len(days) |->
          [key |-> days[k],
           count |-> Cardinality({i \in 1..Len(t.rows) :
                                    StrfDay(t.rows[i]["published"]) = days[k]})]]

\* df.sort_values('published', ascending=False): rows of equal published
\* in either order
SortByPublishedDesc(t, tie) ==
    LET n == Len(t.rows)
        keys == [i \in 1..n |->
                   <<0 - t.rows[i]["published"], IF tie = "kept" THEN i ELSE n - i>>]
        ord == StableOrder(keys, n)
    IN [columns |-> t.columns, rows |-> [k \in 1..n |-> t.rows[ord[k]]]]

\* Timestamp.strftime('%Y-%m-%d %H:%M'); a tick is not finer than a minute
StrfMinute(ts) == ts

\* recent_df: the RecentLimit most recent rows, on the recent columns found
RssData(t, tie) ==
    LET s == SortByPublishedDesc(t, tie)
        n == IF Len(s.rows) < RecentLimit THEN Len(s.rows) ELSE RecentLimit
        available_cols == SelectSeq(RecentColumns, LAMBDA c : HasCol(t, c))
    IN [i \in 1..n |->
          [c \in Range(available_cols) |->
              IF c = "published" THEN StrfMinute(s.rows[i][c]) ELSE s.rows[i][c]]]

RssEmptyDocument(name, d, config, now) ==
    [name |-> name, type |-> "rss", description |-> config.description,
     meta |-> Extend(BridgeMeta(name, config, now, 0, d.columns), "feeds", <<>>),
     stats |-> [date_range |-> [min |-> NoDate, max |-> NoDate, days |-> 0],
                articles_by_feed |-> <<>>, articles_by_day |-> <<>>],
     data |-> <<>>]

\* d is the table after the rows without a published timestamp are dropped
RssDocument(name, d, config, now, tie) ==
    LET feeds == IF HasCol(d, "feed_name")
                 THEN sorted(Unique(Column(d, "feed_name"))) ELSE <<>>
        some == Len(d.rows) > 0
        date_min == IF some THEN SetMin(Range(Column(d, "published"))) ELSE NoDate
        date_max == IF some THEN SetMax(Range(Column(d, "published"))) ELSE NoDate
    IN [name |-> name, type |-> "rss", description |-> config.description,
        meta |-> Extend(BridgeMeta(name, config, now, Len(d.rows), d.columns),
                        "feeds", feeds),
        stats |-> [date_range |->
                      [min |-> date_min, max |-> date_max,
                       days |-> IF some THEN TimedeltaDays(date_min, date_max) ELSE 0],
                   articles_by_feed |->
                      IF HasCol(d, "feed_name") THEN GroupSizes(d, "feed_name") ELSE <<>>,
                   articles_by_day |-> IF some THEN ArticlesByDay(d) ELSE <<>>],
        data |-> RssData(d, tie)]

prepare_rss_dataset(name, table, config, now, tie) ==
    LET d0 == StripInternal(table)
        d == DropUnparseable(d0)
    IN IF Len(d0.rows) = 0 THEN Ok(RssEmptyDocument(name, d0, config, now))
       ELSE IF HasCol(d, "feed_name") /\ SortedRaises(Unique(Column(d, "feed_name")))
            THEN Raise("TypeError: '<'")
       ELSE IF ~HasCol(d, "published") THEN Raise("KeyError: 'published'")
       ELSE Ok(RssDocument(name, d, config, now, tie))

\* df = df.copy(); df = df[[...]]; df['published'] = pd.to_datetime(...);
\* df = df.dropna(...); and, on the sorted and cut recent_df,
\* recent_df['published'] = ...strftime(...)
RssAssigned(table, r) ==
    LET d == StripInternal(table)
        obj == Fresh(Fresh(CallerObject))
    IN IF Len(d.rows) = 0 \/ ~HasCol(d, "published") THEN {}
       ELSE SetItem(obj, "published") \cup
            (IF r.tag = "ok"
             THEN SetItem(Fresh(Fresh(Fresh(Fresh(obj)))), "published") ELSE {})

(***************************************************************************)
(* prepare_fed_stress_dataset                                              *)
(***************************************************************************)
\* the quarter labels ("2024 Q1", ...) are numbered in their str order
NoPeriod == -3

\* sorted(df[c].unique().tolist()) of an integer column
SortedUniqueInts(t, c) == SortedInts(Range(Column(t, c)))

\* sort_cols: those of year, table, date that the table has, in that order
StressSortCols(t) == SelectSeq(<<"year", "table", "date">>, LAMBDA c : HasCol(t, c))

\* the sort key of a row on the columns cols
StressKey(r, cols) ==
    [k \in 1..Len(cols) |->
        IF cols[k] = "table" THEN KeyRank(r[cols[k]]) ELSE r[cols[k]]]

\* df.sort_values(sort_cols) if sort_cols else df; on a single column the
\* sort is a quicksort and rows of equal key come in either order
StressSort(t, tie) ==
    LET cols == StressSortCols(t)
        n == Len(t.rows)
        keys == [i \in 1..n |->
                   IF Len(cols) = 1
                   THEN <<StressKey(t.rows[i], cols)[1], IF tie = "kept" THEN i ELSE n - i>>
                   ELSE StressKey(t.rows[i], cols)]
        ord == StableOrder(keys, n)
    IN IF cols = <<>> THEN t
       ELSE [columns |-> t.columns, rows |-> [k \in 1..n |-> t.rows[ord[k]]]]

\* the date range with days counted from the first to the last period
StressDateRangeCounted(d) ==
    LET periods == IF HasCol(d, "date") THEN SortedUniqueInts(d, "date") ELSE <<>>
    IN IF periods # <<>>
       THEN [min |-> periods[1], max |-> periods[Len(periods)],
             days |-> periods[Len(periods)] - periods[1]]
       ELSE [min |-> NoPeriod, max |-> NoPeriod, days |-> NoPeriod]

\* periods, period_min, period_max and the date_range built from them
StressDateRange(d) ==
    LET periods == IF HasCol(d, "date") THEN SortedUniqueInts(d, "date") ELSE <<>>
        period_min == IF periods # <<>> THEN periods[1] ELSE NoPeriod
        period_max == IF periods # <<>> THEN periods[Len(periods)] ELSE NoPeriod
    IN [min |-> period_min, max |-> period_max, days |-> 0]

FedStressDocument(name, d, config, now, tie) ==
    LET years == IF HasCol(d, "year") THEN SortedUniqueInts(d, "year") ELSE <<>>
        scenarios == IF HasCol(d, "table")
                     THEN sorted(Unique(Column(d, "table"))) ELSE <<>>
    IN [name |-> name, type |-> "fed_stress", description |-> config.description,
        meta |-> Extend(Extend(BridgeMeta(name, config, now, Len(d.rows), d.columns),
                               "years", years), "scenarios", scenarios),
        stats |-> [date_range |-> StressDateRange(d),
                   years |-> years, scenarios |-> scenarios,
                   record_count |-> Len(d.rows)],
        data |-> StressSort(d, tie).rows]

prepare_fed_stress_dataset(name, table, config, now, tie) ==
    LET d == StripInternal(table)
    IN IF HasCol(d, "table") /\ SortedRaises(Unique(Column(d, "table")))
       THEN Raise("TypeError: '<'")
       ELSE Ok(FedStressDocument(name, d, config, now, tie))

\* df = df.copy(); df = df[[...]]; after that no statement of the function
\* assigns to a table (astype and sort_values return new objects)
StressAssigned(table, r) == {}

(***************************************************************************)
(* The normalizers of prepare-data-v2.py: no empty-table branch, and the   *)
(* meta block is the index entry of the dataset with the key list added    *)
(***************************************************************************)
prepare_ohlcv_dataset_v2(name, table, meta) ==
    LET d == StripInternal(table)
        symbols == OhlcvSymbols(d)
    IN IF ~HasCol(d, "date") THEN Raise("KeyError: 'date'")
       ELSE IF ToDatetimeRaises(d, "date") THEN Raise("ValueError: date")
       ELSE IF ~HasCol(d, "symbol") THEN Raise("KeyError: 'symbol'")
       ELSE IF SortedRaises(Unique(Column(d, "symbol"))) THEN Raise("TypeError: '<'")
       ELSE IF ~HasCol(d, "close") THEN Raise("KeyError: 'close'")
       ELSE IF ~HasCol(d, "volume") THEN Raise("KeyError: 'volume'")
       ELSE IF ProjectionMissing(d, OhlcvDataColumns) # None
            THEN Raise("KeyError: not in index")
       ELSE Ok([name |-> name, type |-> "ohlcv", description |-> meta.description,
                meta |-> Extend(meta, "symbols", symbols),
                stats |-> [date_range |->
                              [min |-> DateMin(d), max |-> DateMax(d),
                               days |-> TimedeltaDays(DateMin(d), DateMax(d))],
                           by_symbol |-> OhlcvBySymbol(d, symbols)],
                data |-> OhlcvData(d)])

prepare_fred_dataset_v2(name, table, meta, data_type, tie) ==
    LET d == StripInternal(table)
        series_ids == FredSeriesIds(d)
    IN IF ~HasCol(d, "date") THEN Raise("KeyError: 'date'")
       ELSE IF ToDatetimeRaises(d, "date") THEN Raise("ValueError: date")
       ELSE IF ~HasCol(d, "series_id") THEN Raise("KeyError: 'series_id'")
       ELSE IF SortedRaises(Unique(Column(d, "series_id"))) THEN Raise("TypeError: '<'")
       ELSE IF ~HasCol(d, "value") THEN Raise("KeyError: 'value'")
       ELSE IF FredEmptyGroup(d) THEN Raise("IndexError: single positional indexer")
       ELSE IF ProjectionMissing(d, FredDataColumns) # None
            THEN Raise("KeyError: not in index")
       ELSE Ok([name |-> name, type |-> data_type, description |-> meta.description,
                meta |-> Extend(meta, "series", series_ids),
                stats |-> [date_range |->
                              [min |-> DateMin(d), max |-> DateMax(d),
                               days |-> TimedeltaDays(DateMin(d), DateMax(d))],
                           by_series |-> FredBySeries(d, series_ids, tie)],
                data |-> FredData(d)])

prepare_rss_dataset_v2(name, table, meta, tie) ==
    LET d == DropUnparseable(StripInternal(table))
        doc == RssDocument(name, d, meta, 0, tie)
    IN IF HasCol(d, "feed_name") /\ SortedRaises(Unique(Column(d, "feed_name")))
       THEN Raise("TypeError: '<'")
       ELSE IF ~HasCol(d, "published") THEN Raise("KeyError: 'published'")
       ELSE Ok([doc EXCEPT !.meta = Extend(meta, "feeds", doc.meta.feeds)])

(***************************************************************************)
(* main(): the configuration                                               *)
(***************************************************************************)
\* the category sets (dataset_config in v3, module constants in v2)
OHLCV_DATASETS == {"us_indices", "global_indices"}
RSS_DATASETS == {"fed_news"}
FRED_DATASETS == {"fred_gdp"}
BLS_DATASETS == {"bls_cpi"}
FED_STRESS_DATASETS == {"fed_stress_scenarios"}

\* the source types main() of v3 has a bridge fetch for
SourceTypes == {"yfinance", "rss", "fred", "bls", "fed_stress"}

\* the category a name is processed as: the if / elif chain over the sets
\* (v2 has no stress-scenario set)
Category(v, name) ==
    IF name \in OHLCV_DATASETS THEN "ohlcv"
    ELSE IF name \in RSS_DATASETS THEN "rss"
    ELSE IF name \in FRED_DATASETS THEN "fred"
    ELSE IF name \in BLS_DATASETS THEN "bls"
    ELSE IF v = "v3" /\ name \in FED_STRESS_DATASETS THEN "fed_stress"
    ELSE "unknown"

\* one entry of DATASETS (v3) or of the index (v2, where type is not read)
Entry(name, type) ==
    [name |-> name, type |-> type, description |-> "About " \o name,
     primary_keys |-> <<"date">>]

DeclaredPool ==
    { Entry("us_indices", "yfinance"), Entry("fed_news", "rss"),
      Entry("fred_gdp", "fred"), Entry("bls_cpi", "bls"),
      Entry("fed_stress_scenarios", "fed_stress"),
      Entry("custom_feed", "csv"), Entry("mystery", "fred") }

\* the sets of names a run may declare
DeclaredSets ==
    { {"us_indices", "mystery", "fred_gdp"},
      {"fed_news", "custom_feed", "bls_cpi"},
      {"fed_stress_scenarios", "us_indices", "fed_news"} }

EntryOf(name) == CHOOSE e \in DeclaredPool : e.name = name

\* every order in which the names of S may stand in the dict
Orders(S) ==
    {s \in [1..Cardinality(S) -> S] : \A a, b \in DOMAIN s : a # b => s[a] # s[b]}

(***************************************************************************)
(* main(): the answers of the world                                        *)
(***************************************************************************)
EmptyTable == [columns |-> <<>>, rows |-> <<>>]

GoodOhlcv ==
    [columns |-> <<"_fetched_at">> \o OhlcvDataColumns,
     rows |-> << [_fetched_at |-> 0, symbol |-> "ZZZ", date |-> 4, open |-> 1,
                  high |-> 3, low |-> 1, close |-> 3, volume |-> 7],
                 [_fetched_at |-> 0, symbol |-> "AAA", date |-> 1, open |-> 1,
                  high |-> 3, low |-> 1, close |-> 1, volume |-> 7] >>]

\* a date that cannot be parsed: the normalizer raises
BadOhlcv ==
    [columns |-> OhlcvDataColumns,
     rows |-> << [symbol |-> "AAA", date |-> BadDate, open |-> 1, high |-> 3,
                  low |-> 1, close |-> 1, volume |-> 7] >>]

GoodFred ==
    [columns |-> <<"series_id", "date", "value", "title", "units", "frequency">>,
     rows |-> << [series_id |-> "S1", date |-> 4, value |-> 3, title |-> "GDP",
                  units |-> "Percent", frequency |-> "Monthly"],
                 [series_id |-> "S1", date |-> 1, value |-> 1, title |-> "GDP",
                  units |-> "Percent", frequency |-> "Monthly"] >>]

\* no value column: the normalizer raises
BadFred ==
    [columns |-> <<"series_id", "date">>,
     rows |-> << [series_id |-> "S1", date |-> 1] >>]

GoodRss ==
    [columns |-> <<"title", "link", "published", "feed_name", "author">>,
     rows |-> << [title |-> "a", link |-> "http://a", published |-> 1,
                  feed_name |-> "Fed", author |-> "x"],
                 [title |-> "b", link |-> "http://b", published |-> BadDate,
                  feed_name |-> "Reuters", author |-> "y"] >>]

\* no published column: the normalizer raises
BadRss ==
    [columns |-> <<"title", "feed_name">>,
     rows |-> << [title |-> "a", feed_name |-> "Fed"] >>]

GoodStress ==
    [columns |-> <<"year", "table", "date", "value">>,
     rows |-> << [year |-> 2025, table |-> "Severe", date |-> 2, value |-> 1],
                 [year |-> 2024, table |-> "Baseline", date |-> 1, value |-> 3] >>]

\* scenario names mixing a null with a string: the normalizer raises
BadStress ==
    [columns |-> <<"year", "table">>,
     rows |-> << [year |-> 2024, table |-> None],
                 [year |-> 2024, table |-> "Baseline"] >>]

\* a table the fetch may return that the normalizer accepts
GoodTable(type) ==
    IF type = "yfinance" THEN GoodOhlcv
    ELSE IF type \in {"fred", "bls"} THEN GoodFred
    ELSE IF type = "fed_stress" THEN GoodStress
    ELSE GoodRss

\* a table the fetch may return on which the normalizer raises
BadTable(type) ==
    IF type = "yfinance" THEN BadOhlcv
    ELSE IF type \in {"fred", "bls"} THEN BadFred
    ELSE IF type = "fed_stress" THEN BadStress
    ELSE BadRss

Fetched(t) == [tag |-> "ok", df |-> t]

\* what the world answers for one dataset: the fetch returns a table, raises
\* or (v2) finds no file; the write of <name>.json succeeds, fails at open()
\* or fails inside json.dump(); the clock gives a reading.  A v3 dataset of
\* an unknown source type is never fetched.
Answers(v, e) ==
    IF v = "v3" /\ e.type \notin SourceTypes
    THEN { [fetch |-> [tag |-> "never"], disk |-> "ok", now |-> 10] }
    ELSE { [fetch |-> [tag |-> "raise", exc |-> "ConnectionError"],
            disk |-> "ok", now |-> 10],
           [fetch |-> Fetched(BadTable(e.type)), disk |-> "ok", now |-> 10],
           [fetch |-> IF v = "v3" THEN Fetched(EmptyTable) ELSE [tag |-> "missing"],
            disk |-> "ok", now |-> 10],
           [fetch |-> Fetched(GoodTable(e.type)), disk |-> "ok", now |-> 11],
           [fetch |-> Fetched(GoodTable(e.type)), disk |-> "open_raises", now |-> 10],
           [fetch |-> Fetched(GoodTable(e.type)), disk |-> "dump_raises", now |-> 10] }

(***************************************************************************)
(* main(): the loop over the declared datasets                             *)
(***************************************************************************)
\* the dispatch on the category of the name
Normalize(v, e, table, now) ==
    LET c == Category(v, e.name)
    IN IF v = "v3"
       THEN IF c = "ohlcv" THEN prepare_ohlcv_dataset(e.name, table, e, now)
            ELSE IF c = "rss" THEN prepare_rss_dataset(e.name, table, e, now, "kept")
            ELSE IF c \in {"fred", "bls"}
                 THEN prepare_fred_dataset(e.name, table, e, c, now, "kept")
            ELSE prepare_fed_stress_dataset(e.name, table, e, now, "kept")
       ELSE IF c = "ohlcv" THEN prepare_ohlcv_dataset_v2(e.name, table, e)
            ELSE IF c = "rss" THEN prepare_rss_dataset_v2(e.name, table, e, "kept")
            ELSE prepare_fred_dataset_v2(e.name, table, e, c, "kept")

\* the summary built without its stats
SummaryWithoutStats(dataset) ==
    [name |-> dataset.name, type |-> dataset.type,
     description |-> dataset.description, meta |-> dataset.meta]

\* summary = {"name": ..., "type": ..., "description": ..., "meta": ..., "stats": ...}
Summary(dataset) ==
    [name |-> dataset.name, type |-> dataset.type,
     description |-> dataset.description, meta |-> dataset.meta,
     stats |-> dataset.stats]

\* a file that open(..., 'w') created and json.dump() did not finish
Truncated == [truncated |-> TRUE]
\* a file that was never opened for writing
Absent == [absent |-> TRUE]
\* the same two conditions of the summary collection, a list of records
TruncatedCollection == <<Truncated>>
AbsentCollection == <<Absent>>

Put(f, k, v) == [x \in DOMAIN f \cup {k} |-> IF x = k THEN v ELSE f[x]]

Cur == DATASETS[idx]
Ans == world.answers[Cur.name]
InLoop == pc = "loop" /\ idx <= Len(DATASETS)

\* no dataset is held back
NoRestriction == FALSE

\* if not INCLUDE_RESTRICTED_DATA and name in OHLCV_DATASETS
RestrictedSkip ==
    variant = "v3" /\ ~INCLUDE_RESTRICTED_DATA /\ Cur.name \in OHLCV_DATASETS
MissingFile == variant = "v2" /\ Ans.fetch.tag = "missing"
UnknownType == variant = "v3" /\ Cur.type \notin SourceTypes
FetchOk == ~RestrictedSkip /\ ~UnknownType /\ Ans.fetch.tag = "ok"
Result == Normalize(variant, Cur, Ans.fetch.df, Ans.now)
Normalized == FetchOk /\ Category(variant, Cur.name) # "unknown" /\ Result.tag = "ok"

\* the iteration ends with `continue` (or falls off the end of the body)
Continue(event) ==
    /\ log' = Append(log, <<event, Cur.name>>)
    /\ idx' = idx + 1
    /\ UNCHANGED <<nvars, variant, DATASETS, INCLUDE_RESTRICTED_DATA, world, pc,
                   datasets_json, exit_status>>

\* the except branch: print, errors.append(f"{name}: {str(e)}"), continue
Except(exc) ==
    /\ errors' = Append(errors, <<Cur.name, exc>>)
    /\ Continue("error")

\* v3: a price dataset in a build without restricted data
SkipRestricted ==
    /\ InLoop /\ RestrictedSkip
    /\ Continue("skip restricted")
    /\ UNCHANGED <<all_datasets, errors, files>>

\* a missing file is recorded as an error
MissingFileRecorded ==
    /\ InLoop /\ MissingFile
    /\ Except("FileNotFoundError")
    /\ UNCHANGED <<all_datasets, files>>

\* v2: the Parquet file of the dataset does not exist
SkipMissingFile ==
    /\ InLoop /\ MissingFile
    /\ Continue("skip missing file")
    /\ UNCHANGED <<all_datasets, errors, files>>

\* v3: no bridge fetch for this source type
SkipUnknownType ==
    /\ InLoop /\ ~RestrictedSkip /\ UnknownType
    /\ Continue("skip unknown source type")
    /\ UNCHANGED <<all_datasets, errors, files>>

\* the fetch aborts the whole loop instead of the iteration
FetchRaisesAborts ==
    /\ InLoop /\ ~RestrictedSkip /\ ~UnknownType /\ Ans.fetch.tag = "raise"
    /\ errors' = Append(errors, <<Cur.name, Ans.fetch.exc>>)
    /\ log' = Append(log, <<"error", Cur.name>>)
    /\ idx' = Len(DATASETS) + 1
    /\ UNCHANGED <<nvars, variant, DATASETS, INCLUDE_RESTRICTED_DATA, world, pc,
                   datasets_json, exit_status, all_datasets, files>>

\* the bridge fetch (v3) or pd.read_parquet (v2) raises
FetchRaises ==
    /\ InLoop /\ ~RestrictedSkip /\ ~UnknownType /\ Ans.fetch.tag = "raise"
    /\ Except(Ans.fetch.exc)
    /\ UNCHANGED <<all_datasets, files>>

\* an unknown category is recorded as an error
UnknownCategoryRecorded ==
    /\ InLoop /\ FetchOk /\ Category(variant, Cur.name) = "unknown"
    /\ Except("Unknown dataset category")
    /\ UNCHANGED <<all_datasets, files>>

\* the table is there but the name is in none of the category sets
SkipUnknownCategory ==
    /\ InLoop /\ FetchOk /\ Category(variant, Cur.name) = "unknown"
    /\ Continue("skip unknown category")
    /\ UNCHANGED <<all_datasets, errors, files>>

\* the normalizer's exception is swallowed: nothing is recorded
NormalizeRaisesUnrecorded ==
    /\ InLoop /\ FetchOk /\ Category(variant, Cur.name) # "unknown"
    /\ Result.tag = "raise"
    /\ Continue("error")
    /\ UNCHANGED <<all_datasets, errors, files>>

\* the normalizer raises
NormalizeRaises ==
    /\ InLoop /\ FetchOk /\ Category(variant, Cur.name) # "unknown"
    /\ Result.tag = "raise"
    /\ Except(Result.exc)
    /\ UNCHANGED <<all_datasets, files>>

\* the summary is appended before the document is written
SummaryBeforeWrite ==
    /\ InLoop /\ Normalized /\ Ans.disk # "ok"
    /\ all_datasets' = Append(all_datasets, Summary(Result.doc))
    /\ files' = IF Ans.disk = "dump_raises" THEN Put(files, Cur.name, Truncated)
                ELSE files
    /\ Except("OSError")

\* open(output_file, 'w') or json.dump(dataset, f) raises
WriteRaises ==
    /\ InLoop /\ Normalized /\ Ans.disk # "ok"
    /\ files' = IF Ans.disk = "dump_raises" THEN Put(files, Cur.name, Truncated)
                ELSE files
    /\ Except("OSError")
    /\ UNCHANGED all_datasets

\* the document is written and its summary appended
Emit ==
    /\ InLoop /\ Normalized /\ Ans.disk = "ok"
    /\ files' = Put(files, Cur.name, Result.doc)
    /\ all_datasets' = Append(all_datasets, Summary(Result.doc))
    /\ Continue("written")
    /\ UNCHANGED errors

\* after the loop: json.dump(all_datasets) into datasets.json; an exception
\* here is not caught and ends the interpreter with a non-zero status
WriteDatasetsJson ==
    /\ pc = "loop" /\ idx > Len(DATASETS)
    /\ IF world.summary_disk = "ok"
       THEN /\ datasets_json' = all_datasets
            /\ pc' = "report"
            /\ exit_status' = exit_status
       ELSE /\ datasets_json' = TruncatedCollection
            /\ pc' = "done"
            /\ exit_status' = "failure"
    /\ UNCHANGED <<nvars, variant, DATASETS, INCLUDE_RESTRICTED_DATA, world, idx,
                   all_datasets, errors, files, log>>

\* the recorded errors are printed but the run still ends with status 0
ReportWithoutExit ==
    /\ pc = "report"
    /\ exit_status' = "success"
    /\ pc' = "done"
    /\ UNCHANGED <<nvars, variant, DATASETS, INCLUDE_RESTRICTED_DATA, world, idx,
                   all_datasets, errors, files, datasets_json, log>>

\* if errors: print them and sys.exit(1); else main() returns
Report ==
    /\ pc = "report"
    /\ exit_status' = IF errors # <<>> THEN "failure" ELSE "success"
    /\ pc' = "done"
    /\ UNCHANGED <<nvars, variant, DATASETS, INCLUDE_RESTRICTED_DATA, world, idx,
                   all_datasets, errors, files, datasets_json, log>>

NormIdle ==
    /\ df = EmptyTable /\ kind = "none" /\ ret = [tag |-> "none"] /\ called = FALSE
    /\ assigned = {}

Init ==
    /\ NormIdle
    /\ variant \in {"v3", "v2"}
    /\ INCLUDE_RESTRICTED_DATA \in (IF variant = "v3" THEN BOOLEAN ELSE {TRUE})
    /\ \E S \in DeclaredSets :
          /\ \E order \in Orders(S) :
                DATASETS = [k \in DOMAIN order |-> EntryOf(order[k])]
          /\ \E answers \in [S -> UNION {Answers(variant, EntryOf(n)) : n \in S}],
                summary_disk \in {"ok", "dump_raises"} :
                /\ \A n \in S : answers[n] \in Answers(variant, EntryOf(n))
                /\ world = [answers |-> answers, summary_disk |-> summary_disk]
    /\ pc = "loop"
    /\ idx = 1
    /\ all_datasets = <<>>
    /\ errors = <<>>
    /\ files = <<>>
    /\ datasets_json = AbsentCollection
    /\ exit_status = "running"
    /\ log = <<>>

Next ==
    \/ SkipRestricted
    \/ SkipMissingFile
    \/ SkipUnknownType
    \/ FetchRaises
    \/ SkipUnknownCategory
    \/ NormalizeRaises
    \/ WriteRaises
    \/ Emit
    \/ WriteDatasetsJson
    \/ Report

Spec == Init /\ [][Next]_vars

(***************************************************************************)
(* Properties of main()                                                    *)
(***************************************************************************)
Names(seq) == {seq[k].name : k \in DOMAIN seq}
ErrorNames == {errors[k][1] : k \in DOMAIN errors}
Declared == {DATASETS[k].name : k \in DOMAIN DATASETS}

\* the loop has been through position k
Processed(k) == k < idx \/ pc # "loop"
\* main() printed a line about the dataset
Logged(name) == \E k \in DOMAIN log : log[k][2] = name

\* the iteration of entry e gets as far as retrieving the table
Retrieves(e) ==
    /\ ~(variant = "v3" /\ ~INCLUDE_RESTRICTED_DATA /\ e.name \in OHLCV_DATASETS)
    /\ ~(variant = "v3" /\ e.type \notin SourceTypes)
\* ... and the retrieval raises
RetrievalRaises(e) == Retrieves(e) /\ world.answers[e.name].fetch.tag = "raise"
\* ... or the table is there, the category known and the normalizer raises
NormalizationRaises(e) ==
    /\ Retrieves(e) /\ world.answers[e.name].fetch.tag = "ok"
    /\ Category(variant, e.name) # "unknown"
    /\ Normalize(variant, e, world.answers[e.name].fetch.df,
                 world.answers[e.name].now).tag = "raise"

\* C1: for every declared dataset, an exception from fetching its table or
\* from normalizing it is recorded as (name, message), and the run goes on:
\* every declared dataset after it is still attempted, the loop never stops
\* early.
C1_ErrorsIsolated ==
    /\ \A k \in DOMAIN DATASETS : Processed(k) =>
          LET e == DATASETS[k]
          IN /\ Logged(e.name)
             /\ RetrievalRaises(e) => <<e.name, "ConnectionError">> \in Range(errors)
             /\ NormalizationRaises(e) => e.name \in ErrorNames
    /\ pc # "loop" => idx = Len(DATASETS) + 1

\* the first dataset's fetch raised, the second's normalizer raised, the
\* third was still written
C1_Witness ==
    /\ pc = "done" /\ Len(DATASETS) = 3
    /\ RetrievalRaises(DATASETS[1])
    /\ NormalizationRaises(DATASETS[2])
    /\ DATASETS[3].name \in DOMAIN files
    /\ Len(errors) = 2

\* every summary collected has its document on disk
ArtifactsProduced ==
    \A k \in DOMAIN all_datasets :
        /\ all_datasets[k].name \in DOMAIN files
        /\ "data" \in DOMAIN files[all_datasets[k].name]

\* C2 as stated: the run ends with a failure status if and only if at least
\* one per-dataset error was recorded, and only after every declared dataset
\* was processed and the summary collection written.
C2_FailureIffErrors ==
    exit_status # "running" =>
        /\ (exit_status = "failure") <=> (errors # <<>>)
        /\ idx = Len(DATASETS) + 1
        /\ datasets_json = all_datasets
        /\ ArtifactsProduced

\* C2 amended: the run ends only after every declared dataset was processed;
\* if writing the summary collection raises, the run fails whatever was
\* recorded; otherwise the collection is written, the documents of the
\* successful datasets are on disk, and the status is failure if and only if
\* at least one per-dataset error was recorded.
C2_FailAtEnd ==
    exit_status # "running" =>
        /\ idx = Len(DATASETS) + 1
        /\ ArtifactsProduced
        /\ world.summary_disk # "ok" => exit_status = "failure"
        /\ world.summary_disk = "ok" =>
              /\ datasets_json = all_datasets
              /\ (exit_status = "failure") <=> (errors # <<>>)

\* a run that wrote two documents and the collection and then failed
C2_Witness ==
    /\ pc = "done" /\ exit_status = "failure"
    /\ datasets_json = all_datasets
    /\ Len(all_datasets) = 2 /\ Len(errors) = 1

\* the dataset matches no category: its source type (v3) or its name
Unmatched(e) ==
    \/ variant = "v3" /\ e.type \notin SourceTypes
    \/ Category(variant, e.name) = "unknown"

DocumentTypes == {"ohlcv", "fred", "bls", "rss", "fed_stress"}

EmittedTypesKnown ==
    /\ \A n \in DOMAIN files : "data" \in DOMAIN files[n] => files[n].type \in DocumentTypes
    /\ \A k \in DOMAIN all_datasets : all_datasets[k].type \in DocumentTypes

\* C3 as stated: a dataset whose source type or name matches no category is
\* skipped: no document, no summary entry, no error record; every emitted
\* document has one of the five types.
C3_UnmatchedNeverRecorded ==
    /\ \A k \in DOMAIN DATASETS : (Processed(k) /\ Unmatched(DATASETS[k])) =>
          /\ DATASETS[k].name \notin DOMAIN files
          /\ DATASETS[k].name \notin Names(all_datasets)
          /\ DATASETS[k].name \notin ErrorNames
    /\ EmittedTypesKnown

\* C3 amended: such a dataset gets no document and no summary entry, and no
\* error record unless retrieving its table raised (the name is matched
\* against the category sets only after the table was retrieved); every
\* emitted document has one of the five types.
C3_UnmatchedSkipped ==
    /\ \A k \in DOMAIN DATASETS : (Processed(k) /\ Unmatched(DATASETS[k])) =>
          /\ DATASETS[k].name \notin DOMAIN files
          /\ DATASETS[k].name \notin Names(all_datasets)
          /\ DATASETS[k].name \in ErrorNames <=> RetrievalRaises(DATASETS[k])
    /\ EmittedTypesKnown

\* a run with a dataset of unknown category skipped after its fetch, which
\* ends with status 0 and one document written
C3_Witness ==
    /\ pc = "done" /\ exit_status = "success"
    /\ <<"skip unknown category", "mystery">> \in Range(log)
    /\ Len(all_datasets) = 1 /\ errors = <<>>

\* the backing data of the dataset could not be located or retrieved
Unavailable(e) ==
    Retrieves(e) /\ world.answers[e.name].fetch.tag \in {"missing", "raise"}

\* C4 as stated: a dataset whose backing data cannot be located or
\* retrieved is skipped and logged, the run continues, and the dataset is
\* not recorded as an error (so it does not flip the exit status).
C4_UnavailableNeverRecorded ==
    \A k \in DOMAIN DATASETS : (Processed(k) /\ Unavailable(DATASETS[k])) =>
        /\ Logged(DATASETS[k].name)
        /\ DATASETS[k].name \notin ErrorNames

\* C4 amended: a dataset whose file does not exist (v2) is skipped and
\* logged, gets no document, no summary and no error record, and the run
\* continues; a retrieval that raises (v2 read, v3 bridge fetch) is recorded
\* as a per-dataset error.  A run fails only on a recorded error or on the
\* write of the summary collection.
C4_MissingFileSkipped ==
    /\ \A k \in DOMAIN DATASETS : Processed(k) =>
          LET e == DATASETS[k]
          IN /\ world.answers[e.name].fetch.tag = "missing" =>
                   /\ <<"skip missing file", e.name>> \in Range(log)
                   /\ e.name \notin ErrorNames
                   /\ e.name \notin DOMAIN files
                   /\ e.name \notin Names(all_datasets)
             /\ RetrievalRaises(e) => e.name \in ErrorNames
    /\ pc # "loop" => idx = Len(DATASETS) + 1
    /\ (exit_status = "failure" /\ world.summary_disk = "ok") => errors # <<>>

\* a v2 run whose first file is missing, which still writes a document and
\* ends with status 0
C4_Witness ==
    /\ variant = "v2" /\ pc = "done" /\ exit_status = "success"
    /\ world.answers[DATASETS[1].name].fetch.tag = "missing"
    /\ Len(all_datasets) >= 1

\* a document with its data field removed
DropData(doc) == [f \in DOMAIN doc \ {"data"} |-> doc[f]]

\* the names whose document was written whole
Emitted == {n \in DOMAIN files : "data" \in DOMAIN files[n]}

\* C5: for every dataset normalized and written, the summary collection
\* holds an entry equal to the document without its data field, and it
\* holds no other entry.
C5_SummaryRoundTrip ==
    /\ \A n \in Emitted : \E k \in DOMAIN all_datasets : all_datasets[k] = DropData(files[n])
    /\ \A k \in DOMAIN all_datasets :
          /\ all_datasets[k].name \in Emitted
          /\ all_datasets[k] = DropData(files[all_datasets[k].name])
    /\ Len(all_datasets) = Cardinality(Emitted)
    /\ (pc \in {"report", "done"} /\ world.summary_disk = "ok") =>
          datasets_json = all_datasets

\* the collection on disk holds the summaries of two documents
C5_Witness ==
    /\ pc = "done" /\ datasets_json = all_datasets /\ Len(datasets_json) = 2
    /\ datasets_json[1].type = "fed_stress" /\ datasets_json[2].type = "rss"
    /\ datasets_json[2].stats.articles_by_feed # <<>>

\* what one dataset comes to on its own, from its entry and the answers of
\* the world to it alone: its file, its summary, its error record
Alone(e) ==
    LET a == world.answers[e.name]
        nothing == [file |-> Absent, summary |-> {}, error |-> {}]
        r == Normalize(variant, e, a.fetch.df, a.now)
    IN IF ~Retrieves(e) \/ a.fetch.tag = "missing" THEN nothing
       ELSE IF a.fetch.tag = "raise"
            THEN [nothing EXCEPT !.error = {<<e.name, a.fetch.exc>>}]
       ELSE IF Category(variant, e.name) = "unknown" THEN nothing
       ELSE IF r.tag = "raise" THEN [nothing EXCEPT !.error = {<<e.name, r.exc>>}]
       ELSE IF a.disk = "open_raises"
            THEN [nothing EXCEPT !.error = {<<e.name, "OSError">>}]
       ELSE IF a.disk = "dump_raises"
            THEN [file |-> Truncated, summary |-> {}, error |-> {<<e.name, "OSError">>}]
       ELSE [file |-> r.doc, summary |-> {DropData(r.doc)}, error |-> {}]

FileOf(n) == IF n \in DOMAIN files THEN files[n] ELSE Absent

IsPrefix(s, t) == Len(s) <= Len(t) /\ SubSeq(t, 1, Len(s)) = s

\* the results of the whole run are the results of the datasets taken alone
ResultsAreUnion ==
    pc # "loop" =>
        /\ \A k \in DOMAIN DATASETS : FileOf(DATASETS[k].name) = Alone(DATASETS[k]).file
        /\ Range(all_datasets) = UNION {Alone(DATASETS[k]).summary : k \in DOMAIN DATASETS}
        /\ Range(errors) = UNION {Alone(DATASETS[k]).error : k \in DOMAIN DATASETS}

NotCalled == [tag |-> "none"]

\* main() is not running
MainIdle ==
    /\ variant = "v3" /\ DATASETS = <<>> /\ INCLUDE_RESTRICTED_DATA = TRUE
    /\ world = [answers |-> <<>>, summary_disk |-> "ok"]
    /\ pc = "idle" /\ idx = 1 /\ all_datasets = <<>> /\ errors = <<>>
    /\ files = <<>> /\ datasets_json = AbsentCollection /\ exit_status = "running"
    /\ log = <<>>

\* the dataset_config entry handed to the normalizer
CallConfig == [description |-> "Test dataset", primary_keys |-> <<"date">>]

\* the readings datetime.utcnow() may give
Times == {10, 11}

DateValues == {BadDate, 1, 4}
CloseValues == {NaN, 1, 3}

OhlcvRows ==
    [date : DateValues, symbol : {"AAA", "ZZZ", None}, open : {1}, high : {3},
     low : {1}, close : CloseValues, volume : {7}, _fetched_at : {0}]

OhlcvColumnLists ==
    { OhlcvDataColumns,
      <<"_fetched_at">> \o OhlcvDataColumns,
      <<"symbol", "open", "high", "low", "close", "volume">>,
      <<"date", "open", "high", "low", "close", "volume">>,
      <<"symbol", "date", "open", "high", "low", "volume">>,
      <<"symbol", "date", "close", "volume">>,
      <<"_fetched_at">>,
      <<>> }

FredRows ==
    [date : DateValues, series_id : {"S1", "S2", None}, value : CloseValues,
     title : {"GDP"}, units : {"Percent"}, frequency : {"Monthly"}]

FredColumnLists ==
    { <<"series_id", "date", "value", "title", "units", "frequency">>,
      <<"series_id", "date", "value", "title", "units">>,
      <<"series_id", "value", "title", "units">>,
      <<"date", "value", "title", "units">>,
      <<"series_id", "date", "title", "units">>,
      <<"series_id", "date", "value">>,
      <<>> }

\* a published value is unparseable text or a timestamp; link stands for
\* the URL of the article
RssRows ==
    [title : {"T"}, link : {0}, published : DateValues,
     feed_name : {"Fed", "Reuters", None}, author : {"A"}, _fetched_at : {0}]

RssColumnLists ==
    { RecentColumns,
      <<"_fetched_at">> \o RecentColumns,
      <<"title", "link", "feed_name", "author">>,
      <<"title", "link", "published", "author">>,
      <<"link", "published", "feed_name">>,
      <<"published">>,
      <<>> }

\* how the published values of a long table run along the table
LongPatterns == {"rising", "falling", "pairs", "equal"}

\* a table of n articles numbered by link in table order; the article at
\* position bad (if any) has an unparseable published value
LongRssTable(n, pattern, bad) ==
    [columns |-> RecentColumns,
     rows |-> [i \in 1..n |->
        [title |-> "T", link |-> i, author |-> "A",
         feed_name |-> IF i % 2 = 0 THEN "Fed" ELSE "Reuters",
         published |->
            IF i = bad THEN BadDate
            ELSE CASE pattern = "rising" -> i
                   [] pattern = "falling" -> n - i
                   [] pattern = "pairs" -> (i + 1) \div 2
                   [] pattern = "equal" -> 1]]]

\* tables about as long as the cut of recent articles
LongRssTables ==
    { LongRssTable(n, pattern, bad) :
        n \in (RecentLimit - 1)..(RecentLimit + 2), pattern \in LongPatterns,
        bad \in {0, 1, RecentLimit} }

\* date holds the number of a quarter label
StressRows ==
    [year : {2024, 2025}, table : {"Baseline", "Severe", None}, date : {1, 2},
     value : {1}, _fetched_at : {0}]

StressColumnLists ==
    { <<"year", "table", "date", "value">>,
      <<"_fetched_at", "year", "table", "date", "value">>,
      <<"table", "date", "value">>,
      <<"year", "date", "value">>,
      <<"year", "table", "value">>,
      <<"date", "value">>,
      <<"value">>,
      <<>> }

\* the rows of fullRows cut down to the columns of cols
Restrict(cols, rs) ==
    [columns |-> cols,
     rows |-> [i \in 1..Len(rs) |-> [c \in Range(cols) |-> rs[i][c]]]]

\* df is a table of at most MaxRows rows over one of the column lists
TableOver(t, columnLists, fullRows) ==
    \E cols \in columnLists, n \in 0..MaxRows :
        \E rs \in [1..n -> fullRows] : t = Restrict(cols, rs)

NormInit ==
    /\ kind \in {"ohlcv", "fred", "rss", "fed_stress"}
    /\ CASE kind = "ohlcv" -> TableOver(df, OhlcvColumnLists, OhlcvRows)
         [] kind = "fred" -> TableOver(df, FredColumnLists, FredRows)
         [] kind = "rss" -> \/ TableOver(df, RssColumnLists, RssRows)
                            \/ df \in LongRssTables
         [] kind = "fed_stress" -> TableOver(df, StressColumnLists, StressRows)
    /\ ret = NotCalled
    /\ called = FALSE
    /\ assigned = {}
    /\ MainIdle

CallOhlcv ==
    /\ kind = "ohlcv" /\ ~called
    /\ \E now \in Times :
          ret' = prepare_ohlcv_dataset("us_indices", df, CallConfig, now)
    /\ assigned' = OhlcvAssigned(df, ret')
    /\ df' = WrittenThrough(df, assigned')
    /\ called' = TRUE
    /\ UNCHANGED <<kind, ovars>>

CallFred ==
    /\ kind = "fred" /\ ~called
    /\ \E now \in Times, tie \in SortTies, data_type \in {"fred", "bls"} :
          ret' = prepare_fred_dataset("fred_gdp", df, CallConfig, data_type, now, tie)
    /\ assigned' = FredAssigned(df, ret')
    /\ df' = WrittenThrough(df, assigned')
    /\ called' = TRUE
    /\ UNCHANGED <<kind, ovars>>

CallRss ==
    /\ kind = "rss" /\ ~called
    /\ \E now \in Times, tie \in SortTies :
          ret' = prepare_rss_dataset("fed_news", df, CallConfig, now, tie)
    /\ assigned' = RssAssigned(df, ret')
    /\ df' = WrittenThrough(df, assigned')
    /\ called' = TRUE
    /\ UNCHANGED <<kind, ovars>>

CallStress ==
    /\ kind = "fed_stress" /\ ~called
    /\ \E now \in Times, tie \in SortTies :
          ret' = prepare_fed_stress_dataset("fed_stress_scenarios", df, CallConfig, now, tie)
    /\ assigned' = StressAssigned(df, ret')
    /\ df' = WrittenThrough(df, assigned')
    /\ called' = TRUE
    /\ UNCHANGED <<kind, ovars>>

NormNext == CallOhlcv \/ CallFred \/ CallRss \/ CallStress

SpecNorm == NormInit /\ [][NormNext]_vars

Returned == called /\ ret.tag = "ok"

\* the caller's table is empty or lacks column c1 or c2
Degenerate(t, c1, c2) == Len(t.rows) = 0 \/ ~HasCol(t, c1) \/ ~HasCol(t, c2)

NullDateRange == [min |-> NoDate, max |-> NoDate, days |-> 0]

\* C7: the price-series normalizer given an empty table or one without the
\* date or symbol column, and the macro-series normalizer given an empty
\* table or one without the date or series_id column, return (do not raise)
\* a document with no data rows, an empty key list in meta, empty per-key
\* stats and the date range {min: null, max: null, days: 0}.
C7_EmptyDocument ==
    /\ (called /\ kind = "ohlcv" /\ Degenerate(df, "date", "symbol")) =>
          /\ ret.tag = "ok"
          /\ ret.doc.data = <<>>
          /\ ret.doc.meta.symbols = <<>>
          /\ ret.doc.stats.by_symbol = <<>>
          /\ ret.doc.stats.date_range = NullDateRange
    /\ (called /\ kind = "fred" /\ Degenerate(df, "date", "series_id")) =>
          /\ ret.tag = "ok"
          /\ ret.doc.data = <<>>
          /\ ret.doc.meta.series = <<>>
          /\ ret.doc.stats.by_series = <<>>
          /\ ret.doc.stats.date_range = NullDateRange

\* a non-empty price table without symbol column whose date cannot be parsed
C7_Witness ==
    /\ called /\ kind = "ohlcv" /\ ret.tag = "ok"
    /\ Len(df.rows) > 0 /\ ~HasCol(df, "symbol") /\ HasCol(df, "date")
    /\ df.rows[1]["date"] = BadDate

\* the number of rows of the table carrying symbol v
RowsWith(t, c, v) == Cardinality({i \in 1..Len(t.rows) : t.rows[i][c] = v})

Keys(dict) == [i \in 1..Len(dict) |-> dict[i].key]

Ascending(keys) ==
    \A i \in 1..Len(keys) - 1 : KeyRank(keys[i]) < KeyRank(keys[i + 1])

\* C8: for every non-empty price-series table, the keys of stats.by_symbol
\* are exactly the distinct symbol values of the table, in ascending order,
\* and each entry's count is the number of table rows carrying that symbol.
C8_BySymbol ==
    (Returned /\ kind = "ohlcv" /\ ~Degenerate(df, "date", "symbol")) =>
        LET by == ret.doc.stats.by_symbol
        IN /\ Range(Keys(by)) = Range(Column(df, "symbol"))
           /\ Ascending(Keys(by))
           /\ \A i \in 1..Len(by) : by[i].count = RowsWith(df, "symbol", by[i].key)

\* C9: in the price-series normalizer, close_std of a symbol group of
\* exactly one row is 0, never NaN.
C9_SingleRowStd ==
    (Returned /\ kind = "ohlcv" /\ ~Degenerate(df, "date", "symbol")) =>
        \A i \in 1..Len(ret.doc.stats.by_symbol) :
            LET e == ret.doc.stats.by_symbol[i]
            IN RowsWith(df, "symbol", e.key) = 1 => e.close_std = 0

\* a table of two rows with different symbols: two single-row groups
C9_Witness ==
    /\ Returned /\ kind = "ohlcv"
    /\ Len(df.rows) = 2 /\ HasCol(df, "symbol")
    /\ df.rows[1]["symbol"] = "ZZZ" /\ df.rows[2]["symbol"] = "AAA"
    /\ Len(ret.doc.stats.by_symbol) = 2
    /\ ret.doc.stats.by_symbol[1].close_std = 0


(***************************************************************************)
(* The price scenario: symbols AAA and ZZZ, 3 rows each, AAA closing at    *)
(* 1, 2, 3 in some order                                                   *)
(***************************************************************************)
Permutations3 ==
    {p \in [1..3 -> 1..3] : \A i, j \in 1..3 : i # j => p[i] # p[j]}

\* where the three AAA rows stand among the six rows of the table
ScenarioLayouts == {<<1, 2, 3>>, <<4, 5, 6>>, <<2, 4, 6>>, <<1, 3, 6>>}

ScenarioRow(symbol, date, close, volume) ==
    [symbol |-> symbol, date |-> date, open |-> 1, high |-> 3, low |-> 1,
     close |-> close, volume |-> volume]

\* the table with AAA rows at the places of layout, ZZZ rows elsewhere
ScenarioTable(layout, closes, volumes, zcloses) ==
    LET place(i) == CHOOSE k \in 1..3 : layout[k] = i
        others == SelectSeq(<<1, 2, 3, 4, 5, 6>>, LAMBDA i : i \notin Range(layout))
        zplace(i) == CHOOSE k \in 1..3 : others[k] = i
    IN [columns |-> OhlcvDataColumns,
        rows |-> [i \in 1..6 |->
            IF i \in Range(layout)
            THEN ScenarioRow("AAA", 2 * i, closes[place(i)], volumes[place(i)])
            ELSE ScenarioRow("ZZZ", 2 * i, zcloses[zplace(i)], 7)]]

ScenarioInit ==
    /\ kind = "ohlcv"
    /\ \E layout \in ScenarioLayouts, closes \in Permutations3,
          volumes \in [1..3 -> 0..MaxVolume],
          zcloses \in {<<1, 1, 1>>, <<3, NaN, 1>>} :
            df = ScenarioTable(layout, closes, volumes, zcloses)
    /\ ret = NotCalled
    /\ called = FALSE
    /\ assigned = {}
    /\ MainIdle

SpecScenario == ScenarioInit /\ [][CallOhlcv]_vars

\* the by_symbol entry of symbol AAA
EntryAAA == ret.doc.stats.by_symbol[1]

\* the close values and volumes of the AAA rows of the caller's table
ClosesAAA == Column(MaskEq(df, "symbol", "AAA"), "close")
VolumesAAA == Column(MaskEq(df, "symbol", "AAA"), "volume")

ScenarioNumbers ==
    /\ EntryAAA.key = "AAA"
    /\ EntryAAA.count = 3
    /\ EntryAAA.close_mean = 2 * E4
    /\ EntryAAA.close_min = 1 * E4
    /\ EntryAAA.close_max = 3 * E4
    /\ EntryAAA.close_std = 1 * E4
    /\ EntryAAA.volume_total = VolumesAAA[1] + VolumesAAA[2] + VolumesAAA[3]

\* C10 as stated: in the scenario, by_symbol.AAA has count 3, close_mean
\* 2.0, close_min 1, close_max 3, close_std 1.0, the standard deviation
\* being the population formula (std^2 * n = sum of squared deviations), and
\* volume_total is the sum of the three AAA volumes.
C10_PopulationStd ==
    Returned =>
        /\ ScenarioNumbers
        /\ EntryAAA.close_std * EntryAAA.close_std * 3 * 3
             = SquaredDev(ClosesAAA) * E4 * E4

\* C10 amended: the same numbers, the standard deviation being the sample
\* formula (std^2 * (n - 1) = sum of squared deviations).
C10_SampleStd ==
    Returned =>
        /\ ScenarioNumbers
        /\ EntryAAA.close_std * EntryAAA.close_std * 3 * (3 - 1)
             = SquaredDev(ClosesAAA) * E4 * E4

\* the scenario table with the AAA rows last and closing at 3, 1, 2
C10_Witness ==
    /\ Returned
    /\ ClosesAAA = <<3, 1, 2>>
    /\ df.rows[1]["symbol"] = "ZZZ"
    /\ EntryAAA.volume_total = 3

(***************************************************************************)
(* Properties of the macro-series normalizer                               *)
(***************************************************************************)
\* the positions of the caller's rows that carry key v in column c
RowsOf(t, c, v) == {i \in 1..Len(t.rows) : t.rows[i][c] = v}

Parseable(v) == v \notin {BadDate, NaT}

\* the positions of the caller's rows whose published value is a timestamp
Usable(t) ==
    IF HasCol(t, "published")
    THEN {i \in 1..Len(t.rows) : Parseable(t.rows[i]["published"])} ELSE {}

\* the sum of the counts of a histogram
CountSum(dict) == SeqSum([k \in DOMAIN dict |-> dict[k].count])

\* no data row is a row that failed coercion, and the daily histogram
\* counts the usable rows only
DroppedFromDataAndDays ==
    /\ Len(ret.doc.data) <= Cardinality(Usable(df))
    /\ \A j \in DOMAIN ret.doc.data :
          /\ Parseable(ret.doc.data[j]["published"])
          /\ HasCol(df, "link") =>
                \E i \in Usable(df) : df.rows[i]["link"] = ret.doc.data[j]["link"]
    /\ CountSum(ret.doc.stats.articles_by_day) = Cardinality(Usable(df))

\* C12 as stated: in a news-feed document no row whose published value
\* failed coercion appears in data, and the counts of articles_by_day and
\* the counts of articles_by_feed each sum to the number of rows with a
\* parseable published value.
C12_CountsSumToUsable ==
    (called /\ kind = "rss" /\ ret.tag = "ok") =>
        /\ DroppedFromDataAndDays
        /\ CountSum(ret.doc.stats.articles_by_feed) = Cardinality(Usable(df))

\* C12 amended: no row whose published value failed coercion appears in
\* data; the counts of articles_by_day sum to the number of rows with a
\* parseable published value; the counts of articles_by_feed sum to the
\* number of those rows that have a non-null feed_name (none when the table
\* has no feed_name column).
C12_UnparseableDropped ==
    (called /\ kind = "rss" /\ ret.tag = "ok") =>
        /\ DroppedFromDataAndDays
        /\ CountSum(ret.doc.stats.articles_by_feed) =
              Cardinality({i \in Usable(df) :
                  HasCol(df, "feed_name") /\ df.rows[i]["feed_name"] # None})

\* of two articles the first has an unparseable published value
C12_Witness ==
    /\ called /\ kind = "rss" /\ ret.tag = "ok"
    /\ Len(df.rows) = 2 /\ df.columns = RecentColumns
    /\ df.rows[1]["published"] = BadDate /\ df.rows[2]["published"] = 4
    /\ df.rows[2]["feed_name"] = "Fed"
    /\ Len(ret.doc.data) = 1
    /\ ret.doc.stats.articles_by_feed = <<[key |-> "Fed", count |-> 1]>>
    /\ ret.doc.stats.articles_by_day = <<[key |-> StrfDay(4), count |-> 1]>>

\* row i of the caller's table as a data row: the recent columns it has
ProjectRecent(t, i) ==
    [c \in Range(RecentColumns) \cap Range(t.columns) |->
        IF c = "published" THEN StrfMinute(t.rows[i][c]) ELSE t.rows[i][c]]

Min2(a, b) == IF a < b THEN a ELSE b

\* data holds min(30, usable rows) rows, each a usable row of the table and
\* none more often than the table has it, in descending order of published,
\* and no usable row left out is more recent than a row of data
RecentRowsDescending ==
    LET data == ret.doc.data
        m == Len(data)
        U == Usable(df)
        pub(i) == df.rows[i]["published"]
    IN /\ m = Min2(RecentLimit, Cardinality(U))
       /\ \A j \in 1..m :
             /\ \E i \in U : data[j] = ProjectRecent(df, i)
             /\ Cardinality({k \in 1..m : data[k] = data[j]}) <=
                   Cardinality({i \in U : ProjectRecent(df, i) = data[j]})
       /\ \A j \in 1..(m - 1) : data[j]["published"] >= data[j + 1]["published"]
       /\ m > 0 =>
             \A i \in U : pub(i) > data[m]["published"] =>
                 Cardinality({k \in 1..m : data[k]["published"] = pub(i)}) =
                   Cardinality({h \in U : pub(h) = pub(i)})

\* data is the head of the usable rows in descending order of published,
\* rows of equal published in table order
TiesInTableOrder ==
    LET u == SortedInts(Usable(df))
        keys == [k \in 1..Len(u) |-> <<0 - df.rows[u[k]]["published"]>>]
        ord == StableOrder(keys, Len(u))
    IN ret.doc.data =
         [j \in 1..Min2(RecentLimit, Len(u)) |-> ProjectRecent(df, u[ord[j]])]

\* C13: the data of a news-feed document has length min(30, number of
\* usable rows), consists of the most recently published usable rows and is
\* ordered by published descending, rows of equal published timestamp in
\* their original table order.
C13_RecentRows ==
    (called /\ kind = "rss" /\ ret.tag = "ok") =>
        RecentRowsDescending /\ TiesInTableOrder

\* C14: the news-feed normalizer projects data onto those of the columns
\* title, link, published, feed_name, author that the table has, and a
\* non-empty table that lacks some of these columns (published or feed_name
\* included) is still normalized into a document without raising.
C14_MissingColumnsTolerated ==
    /\ (called /\ kind = "rss" /\ ret.tag = "ok") =>
          \A j \in DOMAIN ret.doc.data :
              DOMAIN ret.doc.data[j] = Range(RecentColumns) \cap Range(df.columns)
    /\ (called /\ kind = "rss" /\ Len(df.rows) > 0
           /\ \E c \in Range(RecentColumns) : ~HasCol(df, c)) =>
          ret.tag = "ok"

(***************************************************************************)
(* Properties of the stress-scenario normalizer                            *)
(***************************************************************************)
\* the scenario column holds null next to text, which sorted() cannot order
MixedLabels(t) == HasCol(t, "table") /\ SortedRaises(Unique(Column(t, "table")))

\* C15 as stated: for every stress-scenario table the days of the date
\* range are 0, and for a table without date column the normalizer does not
\* raise and the bounds of the date range are null.
C15_NoDateNeverRaises ==
    (called /\ kind = "fed_stress") =>
        /\ ret.tag = "ok" => ret.doc.stats.date_range.days = 0
        /\ ~HasCol(df, "date") =>
              /\ ret.tag = "ok"
              /\ ret.doc.stats.date_range = [min |-> NoPeriod, max |-> NoPeriod, days |-> 0]

\* C15 amended: in every stress-scenario document the days of the date
\* range are 0; for a table without date column the bounds are null, and
\* the normalizer raises if and only if the scenario column mixes null and
\* text labels, whether the table has a date column or not.
C15_DaysAlwaysZero ==
    (called /\ kind = "fed_stress") =>
        /\ ret.tag = "ok" <=> ~MixedLabels(df)
        /\ ret.tag = "ok" =>
              /\ ret.doc.stats.date_range.days = 0
              /\ ~HasCol(df, "date") =>
                    ret.doc.stats.date_range = [min |-> NoPeriod, max |-> NoPeriod, days |-> 0]

\* two rows of different years and no date column
C15_Witness ==
    /\ called /\ kind = "fed_stress" /\ ret.tag = "ok" /\ Len(df.rows) = 2
    /\ ~HasCol(df, "date") /\ HasCol(df, "year") /\ HasCol(df, "table")
    /\ df.rows[1]["year"] # df.rows[2]["year"]
    /\ ret.doc.stats.date_range = [min |-> NoPeriod, max |-> NoPeriod, days |-> 0]

(***************************************************************************)
(* Properties of the data of the tabular categories                        *)
(***************************************************************************)
\* row i of the caller's table as a data row on the columns cols
ProjectRow(t, i, cols) ==
    [c \in Range(cols) |-> IF c = "date" THEN StrfDay(t.rows[i][c]) ELSE t.rows[i][c]]

\* data holds every row of the table as often as the table has it, and the
\* (key, date) pairs of consecutive data rows do not descend
AllRowsSorted(data, t, keycol, cols) ==
    /\ Len(data) = Len(t.rows)
    /\ \A j \in DOMAIN data :
          Cardinality({k \in DOMAIN data : data[k] = data[j]}) =
            Cardinality({i \in 1..Len(t.rows) : ProjectRow(t, i, cols) = data[j]})
    /\ \A j \in 1..(Len(data) - 1) :
          ~LexLess(<<KeyRank(data[j + 1][keycol]), data[j + 1]["date"]>>,
                   <<KeyRank(data[j][keycol]), data[j]["date"]>>)

\* C16: in every document made from a non-empty table of a tabular category
\* (one that has its key column and its date column), data holds all rows
\* of the table and is sorted ascending by (symbol, date) for price-series
\* and by (series_id, date) for macro-series.
C16_DataSortedByKeyDate ==
    /\ (called /\ kind = "ohlcv" /\ ret.tag = "ok"
           /\ ~Degenerate(df, "date", "symbol")) =>
          AllRowsSorted(ret.doc.data, df, "symbol", OhlcvDataColumns)
    /\ (called /\ kind = "fred" /\ ret.tag = "ok"
           /\ ~Degenerate(df, "date", "series_id")) =>
          AllRowsSorted(ret.doc.data, df, "series_id", FredDataColumns)

\* a price table whose rows stand against the order of their symbols
C16_Witness ==
    /\ called /\ kind = "ohlcv" /\ ret.tag = "ok" /\ Len(df.rows) = 2
    /\ HasCol(df, "symbol") /\ HasCol(df, "date")
    /\ df.rows[1]["symbol"] = "ZZZ" /\ df.rows[2]["symbol"] = "AAA"
    /\ df.rows[1]["date"] = 1 /\ df.rows[2]["date"] = 4
    /\ ret.doc.data[1]["symbol"] = "AAA" /\ ret.doc.data[2]["symbol"] = "ZZZ"

(***************************************************************************)
(* Properties of the date range                                            *)
(***************************************************************************)
\* the range from the least to the greatest of the timestamps S, with their
\* difference in whole days
RangeOver(S) ==
    [min |-> SetMin(S), max |-> SetMax(S),
     days |-> (SetMax(S) - SetMin(S)) \div TicksPerDay]

C18_CallerTableUnchanged ==
    [][(~called /\ called') => (assigned' = {} /\ df' = df)]_vars

\* a news-feed call that coerced and dropped an unparseable published value
\* while the caller's table still holds it
C18_Witness ==
    /\ called /\ kind = "rss" /\ ret.tag = "ok"
    /\ assigned = {}
    /\ Len(df.rows) = 2
    /\ HasCol(df, "published") /\ HasCol(df, "_fetched_at")
    /\ df.rows[1]["published"] = BadDate
    /\ df.rows[2]["published"] # BadDate
    /\ Len(ret.doc.data) = 1

(***************************************************************************)
(* Properties of the order of write and summary                            *)
(***************************************************************************)
\* the iteration of entry e gets as far as writing the document, and
\* open() or json.dump() raises
WriteFails(e) ==
    /\ Retrieves(e) /\ world.answers[e.name].fetch.tag = "ok"
    /\ Category(variant, e.name) # "unknown"
    /\ Normalize(variant, e, world.answers[e.name].fetch.df,
                 world.answers[e.name].now).tag = "ok"
    /\ world.answers[e.name].disk # "ok"

\* every summary has its document on disk, written whole
SummariesHaveDocuments ==
    \A k \in DOMAIN all_datasets :
        /\ all_datasets[k].name \in DOMAIN files
        /\ "data" \in DOMAIN files[all_datasets[k].name]

\* a dataset whose write failed has an error record and no summary
FailedWritesRecorded ==
    \A k \in DOMAIN DATASETS : (Processed(k) /\ WriteFails(DATASETS[k])) =>
        /\ <<DATASETS[k].name, "OSError">> \in Range(errors)
        /\ DATASETS[k].name \notin Names(all_datasets)

\* a step that appends a summary appends one, of the dataset at hand, and
\* that dataset's document is whole on disk when the step is over
AppendedAfterWrite ==
    all_datasets' # all_datasets =>
        /\ Len(all_datasets') = Len(all_datasets) + 1
        /\ SubSeq(all_datasets', 1, Len(all_datasets)) = all_datasets
        /\ all_datasets'[Len(all_datasets')].name = Cur.name
        /\ Cur.name \in DOMAIN files'
        /\ "data" \in DOMAIN files'[Cur.name]

\* C19: the summary of a dataset is appended to the summary collection only
\* after the dataset's full document has been written: in every reachable
\* state each summary has a written per-dataset document, and a dataset
\* whose write failed has an error record and no summary.
C19_SummaryAfterWrite ==
    /\ [](SummariesHaveDocuments /\ FailedWritesRecorded)
    /\ [][AppendedAfterWrite]_vars

\* a run in which one document was written and summarised and the write of
\* another broke off inside json.dump()
C19_Witness ==
    /\ pc = "done" /\ Len(all_datasets) = 1
    /\ \E k \in DOMAIN DATASETS :
          /\ WriteFails(DATASETS[k])
          /\ world.answers[DATASETS[k].name].disk = "dump_raises"
          /\ DATASETS[k].name \in DOMAIN files
          /\ "truncated" \in DOMAIN files[DATASETS[k].name]
          /\ DATASETS[k].name \in ErrorNames
          /\ DATASETS[k].name \notin Names(all_datasets)

(***************************************************************************)
(* Properties of the restricted-data toggle                                *)
(***************************************************************************)
\* what main() printed about the dataset
EventsOf(name) == {log[k][1] : k \in {j \in DOMAIN log : log[j][2] = name}}

\* the file, the summaries and the error records the run has for a name
OutcomeOf(name) ==
    [file |-> FileOf(name),
     summary |-> {all_datasets[k] : k \in {j \in DOMAIN all_datasets :
                                              all_datasets[j].name = name}},
     error |-> {errors[k] : k \in {j \in DOMAIN errors : errors[j][1] = name}}]

\* C20: when INCLUDE_RESTRICTED_DATA is false no price-series dataset is
\* fetched, written or added to the summary collection, and skipping it
\* records no error; when it is true a price-series dataset is fetched,
\* normalized, written and summarised, or fails, as any other dataset is.
C20_RestrictedExcluded ==
    \A k \in DOMAIN DATASETS :
        (variant = "v3" /\ Processed(k) /\ DATASETS[k].name \in OHLCV_DATASETS) =>
            LET e == DATASETS[k]
            IN IF ~INCLUDE_RESTRICTED_DATA
               THEN /\ EventsOf(e.name) = {"skip restricted"}
                    /\ e.name \notin DOMAIN files
                    /\ e.name \notin Names(all_datasets)
                    /\ e.name \notin ErrorNames
               ELSE /\ "skip restricted" \notin EventsOf(e.name)
                    /\ OutcomeOf(e.name) = Alone(e)
                    /\ (world.answers[e.name].fetch.tag = "ok"
                          /\ world.answers[e.name].fetch.df = GoodOhlcv
                          /\ world.answers[e.name].disk = "ok") =>
                              e.name \in Emitted

\* a finished run without restricted data: the price dataset, whose table
\* was there to be fetched and written, left no trace, while another
\* dataset was written
C20_Witness ==
    /\ variant = "v3" /\ ~INCLUDE_RESTRICTED_DATA /\ pc = "done"
    /\ Emitted # {}
    /\ \E k \in DOMAIN DATASETS :
          /\ DATASETS[k].name \in OHLCV_DATASETS
          /\ world.answers[DATASETS[k].name].fetch = Fetched(GoodOhlcv)
          /\ world.answers[DATASETS[k].name].disk = "ok"
          /\ DATASETS[k].name \notin DOMAIN files
          /\ EventsOf(DATASETS[k].name) = {"skip restricted"}

(***************************************************************************)
(* Properties of the feeds of a news-feed document                         *)
(***************************************************************************)
\* the keys of a histogram
KeySet(dict) == {dict[k].key : k \in DOMAIN dict}

\* the feeds listed are the feeds counted, and the counts add up to the
\* record count, which is the number of rows kept
FeedsAgree ==
    /\ KeySet(ret.doc.stats.articles_by_feed) = Range(ret.doc.meta.feeds)
    /\ CountSum(ret.doc.stats.articles_by_feed) = ret.doc.meta.record_count
    /\ ret.doc.meta.record_count = Cardinality(Usable(df))

\* a kept row has a null feed_name
NullFeedKept == \E i \in Usable(df) : df.rows[i]["feed_name"] = None

\* C21: in every news-feed document built from a table with a feed_name
\* column the key set of stats.articles_by_feed equals the set of values of
\* meta.feeds and the counts of articles_by_feed sum to meta.record_count,
\* the number of rows kept after the unparseable published values are
\* dropped, also when some rows have a null feed_name.
C21_FeedsMatchCounts ==
    (called /\ kind = "rss" /\ ret.tag = "ok" /\ HasCol(df, "feed_name")) =>
        FeedsAgree

\* the same for the documents built from tables none of whose kept rows
\* has a null feed_name
FeedsAgreeWithoutNull ==
    (called /\ kind = "rss" /\ ret.tag = "ok" /\ HasCol(df, "feed_name")
       /\ ~NullFeedKept) =>
        FeedsAgree
====
